---- MODULE Spec2Model ----
(***************************************************************************)
(* The Iris inference service of app.py: the artifact load done once at    *)
(* import time, the three Flask routes (GET /, GET /health, POST /predict) *)
(* and the input validation _validate.                                     *)
(*                                                                         *)
(* Python values are modelled as follows.                                  *)
(*   - None / a value: the empty tuple <<>> / the one-element tuple <<v>>. *)
(*   - a JSON value: a record with a tag t ("null", "num", "str", "list",  *)
(*     "dict") and its content; a request body that does not parse has    *)
(*     the tag "invalid".                                                  *)
(*   - a float: a record [nan, v]; the numbers of a request are small      *)
(*     integers, a probability is a number of sixteenths (exact in binary  *)
(*     floating point, so that the three-decimal formatting rounds).       *)
(*   - a text built by an f-string: the tuple of its pieces.               *)
(***************************************************************************)
EXTENDS Integers, Sequences, FiniteSets, TLC

VARIABLES
    artifact,       \* what lies at ARTIFACT_PATH when the process starts
    pc,             \* "startup", "serving" or "crashed"
    loads,          \* how many times joblib.load has been called
    model,          \* module globals of app.py
    class_names,
    feature_names,
    n_features,
    test_accuracy,
    request,        \* the HTTP request being served, or None
    response        \* the response built for it, or None

globals == <<model, class_names, feature_names, n_features, test_accuracy>>
vars == <<artifact, pc, loads, model, class_names, feature_names, n_features,
          test_accuracy, request, response>>

\* Longest 'features' list a request carries.
MaxLen == 4

None == <<>>
Some(v) == <<v>>

Range(s) == {s[i] : i \in DOMAIN s}

API_VERSION == "1.0.0"

\* load_iris().target_names.tolist()
iris_target_names == <<"setosa", "versicolor", "virginica">>

default_feature_names == <<"f1", "f2", "f3", "f4">>

default_n_features == 4

\* iris.feature_names, as train_model.py stores them
iris_feature_names ==
    <<"sepal length (cm)", "sepal width (cm)", "petal length (cm)", "petal width (cm)">>

(***************************************************************************)
(* The artifact file.                                                      *)
(***************************************************************************)

\* A scikit-learn classifier as app.py uses it: whether it has predict_proba,
\* its classes_ (the labels predict returns) and the width it was fitted on.
Classifier(proba, classes, width) ==
    [predict_proba |-> proba, classes_ |-> classes, n_features_in_ |-> width]

\* What train_model.py dumps (accuracy in hundredths).
TrainedArtifact ==
    [kind |-> "dict",
     d |-> [model |-> Classifier(TRUE, <<0, 1, 2>>, 4),
            class_names |-> iris_target_names,
            feature_names |-> iris_feature_names,
            n_features |-> [t |-> "int", v |-> 4],
            test_accuracy |-> 97]]

\* Other bundles joblib.load can return: a dictionary with some keys absent,
\* a dictionary whose n_features is no integer, a two-class two-feature bundle.
OtherDictArtifacts ==
    { [kind |-> "dict",
       d |-> [class_names |-> iris_target_names,
              feature_names |-> iris_feature_names,
              n_features |-> [t |-> "int", v |-> 4],
              test_accuracy |-> 97]],
      [kind |-> "dict",
       d |-> [model |-> Classifier(FALSE, <<0, 1, 2>>, 4)]],
      [kind |-> "dict",
       d |-> [model |-> Classifier(TRUE, <<0, 1, 2>>, 4),
              n_features |-> [t |-> "str", v |-> 0]]],
      [kind |-> "dict",
       d |-> [model |-> Classifier(TRUE, <<0, 1>>, 2),
              class_names |-> <<"neg", "pos">>,
              n_features |-> [t |-> "int", v |-> 2],
              test_accuracy |-> 50]] }

\* A pickled bare classifier (the compatibility branch of the load).
BareArtifacts ==
    { [kind |-> "bare", obj |-> Classifier(p, c, 4)] :
        p \in BOOLEAN, c \in {<<0, 1, 2>>, <<-1, 0, 1>>, <<0, 1, 2, 3>>, <<0, 1>>} }

ArtifactFiles ==
    {[kind |-> "missing"], [kind |-> "corrupt"], TrainedArtifact}
        \cup OtherDictArtifacts \cup BareArtifacts

\* dict.get(key, default)
get(d, key, default) == IF key \in DOMAIN d THEN d[key] ELSE default

\* int(v) raises ValueError on a string that is no integer literal.
int_raises(v) == v.t # "int"

(***************************************************************************)
(* Module-level load, app.py lines 35-57.                                  *)
(***************************************************************************)
LoadArtifact ==
    /\ pc = "startup"
    /\ loads' = loads + 1
    /\ CASE artifact.kind = "missing" ->
              \* except FileNotFoundError
              /\ model' = None
              /\ class_names' = <<>>
              /\ feature_names' = <<>>
              /\ n_features' = 0
              /\ test_accuracy' = 0
              /\ pc' = "serving"
         [] artifact.kind = "corrupt" ->
              \* joblib.load raises something else: the import fails
              /\ pc' = "crashed"
              /\ UNCHANGED globals
         [] artifact.kind = "dict" ->
              IF int_raises(get(artifact.d, "n_features", [t |-> "int", v |-> default_n_features]))
              THEN /\ pc' = "crashed"
                   /\ UNCHANGED globals
              ELSE /\ model' = (IF "model" \in DOMAIN artifact.d
                                THEN Some(artifact.d.model) ELSE None)
                   /\ class_names' = get(artifact.d, "class_names", iris_target_names)
                   /\ feature_names' = get(artifact.d, "feature_names", default_feature_names)
                   /\ n_features' =
                        get(artifact.d, "n_features", [t |-> "int", v |-> default_n_features]).v
                   /\ test_accuracy' = get(artifact.d, "test_accuracy", 0)
                   /\ pc' = "serving"
         [] artifact.kind = "bare" ->
              /\ model' = Some(artifact.obj)
              /\ class_names' = iris_target_names
              /\ feature_names' = default_feature_names
              /\ n_features' = default_n_features
              /\ test_accuracy' = 0
              /\ pc' = "serving"
    /\ UNCHANGED <<artifact, request, response>>

(***************************************************************************)
(* Requests.                                                               *)
(***************************************************************************)
JNull == [t |-> "null"]
JNum(v) == [t |-> "num", v |-> v]
JBool(b) == [t |-> "bool", b |-> b]
JStr(s) == [t |-> "str", s |-> s]
JList(items) == [t |-> "list", items |-> items]
JDict(d) == [t |-> "dict", d |-> d]
Unparseable == [t |-> "invalid"]

\* The strings float() accepts, with their values.
numeric_strings == ("1" :> 1) @@ ("2" :> 2)

\* What an element of 'features' is drawn from; lists nest one level deep.
Elems ==
    { JNum(1), JNum(2), JStr("tres"), JStr("2"), JNull, JBool(TRUE),
      JList(<<JNum(1), JNum(2)>>), JDict(<<>>) }

FeatureLists == UNION { [1..n -> Elems] : n \in 0..MaxLen }

FeatureValues ==
    {JNull, JNum(1), JStr("tres"), JDict(<<>>)} \cup {JList(l) : l \in FeatureLists}

Bodies ==
    { Unparseable, JNull, JNum(1), JStr("tres"), JList(<<JNum(1), JNum(2)>>),
      JDict(<<>>), JDict([other |-> JNum(1)]) }
        \cup { JDict([features |-> f]) : f \in FeatureValues }

\* Bodies sent under a content type other than application/json: a text that
\* is no JSON, and JSON documents (among them a well-formed payload).
OtherTypeBodies ==
    { Unparseable, JNull, JDict(<<>>),
      JDict([features |-> JList(<<JStr("tres")>>)]),
      JDict([features |-> JList([i \in 1..default_n_features |-> JNum(1)])]) }

Requests ==
    { [path |-> "/"], [path |-> "/health"] }
        \cup { [path |-> "/predict", is_json |-> TRUE, body |-> b] : b \in Bodies }
        \cup { [path |-> "/predict", is_json |-> FALSE, body |-> b] : b \in OtherTypeBodies }

\* request.get_json(silent=True): None for a body that does not parse, and
\* for the JSON text null.
get_json(req) ==
    IF req.body.t \in {"invalid", "null"} THEN None ELSE Some(req.body)

(***************************************************************************)
(* numpy: np.asarray(feats, dtype=float).reshape(1, -1)                    *)
(***************************************************************************)
Float(v) == [nan |-> FALSE, v |-> v]
NaN == [nan |-> TRUE, v |-> 0]

\* The float numpy stores for a scalar, None when the conversion raises:
\* None (JSON null) becomes nan, a numeric string is parsed, True is 1.0.
as_float(e) ==
    CASE e.t = "num" -> Some(Float(e.v))
      [] e.t = "bool" -> Some(Float(IF e.b THEN 1 ELSE 0))
      [] e.t = "null" -> Some(NaN)
      [] e.t = "str" ->
            IF e.s \in DOMAIN numeric_strings
            THEN Some(Float(numeric_strings[e.s])) ELSE None
      [] OTHER -> None

\* An array is [shape, data], data in row-major order; None when numpy raises
\* (an element that does not convert, or rows of different lengths).
np_asarray(feats) ==
    LET L == Len(feats)
        scalars == \A i \in 1..L : feats[i].t # "list"
        rows == /\ L > 0
                /\ \A i \in 1..L :
                     /\ feats[i].t = "list"
                     /\ Len(feats[i].items) = Len(feats[1].items)
                     /\ \A j \in 1..Len(feats[i].items) : feats[i].items[j].t # "list"
    IN  IF scalars
        THEN IF \E i \in 1..L : as_float(feats[i]) = None
             THEN None
             ELSE Some([shape |-> <<L>>,
                        data |-> [i \in 1..L |-> as_float(feats[i])[1]]])
        ELSE IF rows
        THEN LET k == Len(feats[1].items)
                 at(n) == feats[((n - 1) \div k) + 1].items[((n - 1) % k) + 1]
             IN  IF \E n \in 1..(L * k) : as_float(at(n)) = None
                 THEN None
                 ELSE Some([shape |-> <<L, k>>,
                            data |-> [n \in 1..(L * k) |-> as_float(at(n))[1]]])
        ELSE None

\* a.reshape(1, -1)
reshape_row(a) == [shape |-> <<1, Len(a.data)>>, data |-> a.data]

(***************************************************************************)
(* _validate, app.py lines 109-124.                                        *)
(***************************************************************************)
MsgNotAnObject == <<"El cuerpo debe ser un objeto JSON con la clave 'features'.">>
MsgMissingKey == <<"Falta la clave 'features' en el JSON.">>
MsgNotAList == <<"La clave 'features' debe ser una lista.">>
\* Mutant: the two counts are interpolated the wrong way round.
MsgWrongArity_swapped(expected, received) ==
    <<"Se esperaban ", received, " valores numericos, se recibieron ", expected, ".">>

MsgWrongArity(expected, received) ==
    <<"Se esperaban ", expected, " valores numericos, se recibieron ", received, ".">>
MsgNonNumeric == <<"Todos los elementos de 'features' deben ser numericos (int/float).">>

Fail(msg) == [ok |-> FALSE, error |-> msg]

\* Mutant: the conversion is attempted before the length is compared.
_validate_coerce_first(payload) ==
    IF payload.t # "dict" THEN Fail(MsgNotAnObject)
    ELSE IF "features" \notin DOMAIN payload.d THEN Fail(MsgMissingKey)
    ELSE LET feats == payload.d.features IN
         IF feats.t # "list" THEN Fail(MsgNotAList)
         ELSE LET a == np_asarray(feats.items) IN
              IF a = None THEN Fail(MsgNonNumeric)
              ELSE IF Len(feats.items) # n_features
                   THEN Fail(MsgWrongArity(n_features, Len(feats.items)))
              ELSE [ok |-> TRUE, x |-> reshape_row(a[1])]

_validate(payload) ==
    IF payload.t # "dict" THEN Fail(MsgNotAnObject)
    ELSE IF "features" \notin DOMAIN payload.d THEN Fail(MsgMissingKey)
    ELSE LET feats == payload.d.features IN
         IF feats.t # "list" THEN Fail(MsgNotAList)
         ELSE IF Len(feats.items) # n_features
              THEN Fail(MsgWrongArity(n_features, Len(feats.items)))
         ELSE LET a == np_asarray(feats.items) IN
              IF a = None THEN Fail(MsgNonNumeric)
              ELSE [ok |-> TRUE, x |-> reshape_row(a[1])]

(***************************************************************************)
(* The classifier, as the calls of app.py lines 150 and 154 see it.        *)
(***************************************************************************)
\* Probabilities in sixteenths; the rows predict_proba may return for n classes.
ProbLevels == {0, 3, 13, 16}

RECURSIVE Sum(_)
Sum(s) == IF s = <<>> THEN 0 ELSE s[1] + Sum(Tail(s))

ProbaRows(n) == { r \in [1..n -> ProbLevels] : Sum(r) = 16 }

\* np.argmax: the first position of the largest entry.
argmax(r) ==
    CHOOSE k \in 1..Len(r) :
        /\ \A j \in 1..Len(r) : r[j] <= r[k]
        /\ \A j \in 1..(k - 1) : r[j] < r[k]

Raised == [raised |-> TRUE, k |-> 0, proba |-> <<>>]
Answer(k, row) == [raised |-> FALSE, k |-> k, proba |-> row]

\* What the classifier does with the array x: it raises ValueError on a width
\* other than the one it was fitted on; on nan it raises or answers, depending
\* on the scikit-learn release; else predict returns classes_[k], where k is
\* the argmax of the row predict_proba returns (any k without predict_proba).
ClassifierBehaviours(clf, x) ==
    LET n == Len(clf.classes_)
        answers == IF clf.predict_proba
                   THEN { Answer(argmax(r), r) : r \in ProbaRows(n) }
                   ELSE { Answer(k, <<>>) : k \in 1..n }
    IN  IF x.shape[2] # clf.n_features_in_ THEN {Raised}
        ELSE IF \E i \in DOMAIN x.data : x.data[i].nan THEN {Raised} \cup answers
        ELSE answers

\* seq[i] of a Python list: a negative i counts from the end; None on IndexError.
PyIndex(s, i) ==
    IF 0 <= i /\ i < Len(s) THEN Some(s[i + 1])
    ELSE IF -Len(s) <= i /\ i < 0 THEN Some(s[Len(s) + i + 1])
    ELSE None

Digit(d) == <<"0", "1", "2", "3", "4", "5", "6", "7", "8", "9">>[d + 1]

\* f"{p:.3f}" for p sixteenths: the exact value rounded half-to-even to
\* thousandths, as the characters of the text.
Format3(p) ==
    LET q == (p * 125) \div 2
        t == IF (p * 125) % 2 = 0 \/ q % 2 = 0 THEN q ELSE q + 1
    IN  <<Digit(t \div 1000), ".", Digit((t \div 100) % 10),
          Digit((t \div 10) % 10), Digit(t % 10)>>

(***************************************************************************)
(* Responses.                                                              *)
(***************************************************************************)
Json(code, body) == [code |-> code, json |-> TRUE, body |-> body]

\* Flask's answer to an exception the view does not catch.
InternalServerError ==
    [code |-> 500, json |-> FALSE, body |-> [title |-> "500 Internal Server Error"]]

ErrorBody(msg) == [status |-> "error", error |-> msg]

MsgUnavailable == <<"Modelo no disponible.">>
MsgContentType == <<"Content-Type debe ser application/json">>
MsgBadJson == <<"JSON invalido o vacio.">>

\* root, app.py lines 62-85
root_loaded == model # None

root_view ==
    Json(200,
         [message |-> "API de Clasificacion Iris",
          status |-> "success",
          version |-> API_VERSION,
          model_info |-> [loaded |-> root_loaded,
                          n_features |-> n_features,
                          feature_names |-> feature_names,
                          class_names |-> class_names,
                          test_accuracy |-> test_accuracy]])

\* health, app.py lines 88-105
\* Mutant: the health flag is a constant.
health_ok_always == TRUE

health_ok == model # None

health_view ==
    LET ok == health_ok IN
    Json(IF ok THEN 200 ELSE 500,
         [status |-> IF ok THEN "ok" ELSE "error",
          message |-> IF ok THEN "Servicio saludable" ELSE "Modelo no cargado",
          model_loaded |-> ok,
          version |-> API_VERSION,
          n_features |-> n_features,
          class_names |-> class_names,
          test_accuracy |-> test_accuracy])

\* predict, app.py lines 128-173
model_is_None == model = None

\* {class_names[i]: f"{proba_list[i]:.3f}" for i in range(len(class_names))}:
\* a later i overwrites an equal key; None when proba_list[i] raises IndexError.
probs_comprehension(proba_list) ==
    IF Len(proba_list) < Len(class_names) THEN None
    ELSE Some([name \in Range(class_names) |->
                 LET last == CHOOSE i \in 1..Len(class_names) :
                                /\ class_names[i] = name
                                /\ \A j \in (i + 1)..Len(class_names) : class_names[j] # name
                 IN  Format3(proba_list[last])])

\* Mutant: without predict_proba the mapping is keyed by the first class name.
predict_shape_first_label(c) ==
    IF c.raised THEN InternalServerError
    ELSE LET idx == model[1].classes_[c.k]
             proba_list == IF model[1].predict_proba THEN c.proba ELSE <<>>
             probs_dict ==
                 IF model[1].predict_proba THEN probs_comprehension(proba_list)
                 ELSE IF PyIndex(class_names, 0) = None THEN None
                 ELSE Some([name \in {PyIndex(class_names, 0)[1]} |->
                              <<"1", ".", "0", "0", "0">>])
         IN  IF probs_dict = None \/ PyIndex(class_names, idx) = None
             THEN InternalServerError
             ELSE Json(200,
                       [status |-> "success",
                        prediction |-> PyIndex(class_names, idx)[1],
                        prediction_index |-> idx,
                        probabilities |-> probs_dict[1],
                        proba |-> proba_list,
                        target_names |-> class_names])

\* Lines 150-173, given what the classifier does (c) with the validated array.
predict_shape(c) ==
    IF c.raised THEN InternalServerError
    ELSE LET idx == model[1].classes_[c.k]
             proba_list == IF model[1].predict_proba THEN c.proba ELSE <<>>
             probs_dict ==
                 IF model[1].predict_proba THEN probs_comprehension(proba_list)
                 ELSE IF PyIndex(class_names, idx) = None THEN None
                 ELSE Some([name \in {PyIndex(class_names, idx)[1]} |->
                              <<"1", ".", "0", "0", "0">>])
         IN  IF probs_dict = None \/ PyIndex(class_names, idx) = None
             THEN InternalServerError
             ELSE Json(200,
                       [status |-> "success",
                        prediction |-> PyIndex(class_names, idx)[1],
                        prediction_index |-> idx,
                        probabilities |-> probs_dict[1],
                        proba |-> proba_list,
                        target_names |-> class_names])

\* Whether the request gets as far as the classifier, and the array it passes.
reaches_classifier(req) ==
    /\ ~model_is_None
    /\ req.is_json
    /\ get_json(req) # None
    /\ _validate(get_json(req)[1]).ok

\* Mutant: the content type and the body are checked before the model.
predict_view_model_last(req, c) ==
    IF ~req.is_json THEN Json(400, ErrorBody(MsgContentType))
    ELSE LET payload == get_json(req) IN
         IF payload = None THEN Json(400, ErrorBody(MsgBadJson))
         ELSE IF model_is_None THEN Json(500, ErrorBody(MsgUnavailable))
         ELSE LET v == _validate(payload[1]) IN
              IF ~v.ok THEN Json(400, ErrorBody(v.error))
              ELSE predict_shape(c)

predict_view(req, c) ==
    IF model_is_None THEN Json(500, ErrorBody(MsgUnavailable))
    ELSE IF ~req.is_json THEN Json(400, ErrorBody(MsgContentType))
    ELSE LET payload == get_json(req) IN
         IF payload = None THEN Json(400, ErrorBody(MsgBadJson))
         ELSE LET v == _validate(payload[1]) IN
              IF ~v.ok THEN Json(400, ErrorBody(v.error))
              ELSE predict_shape(c)

(***************************************************************************)
(* The server: one request at a time is received, handled by its view and  *)
(* answered.                                                               *)
(***************************************************************************)
Receive ==
    /\ pc = "serving"
    /\ request = None
    /\ \E req \in Requests : request' = Some(req)
    /\ UNCHANGED <<artifact, pc, loads, globals, response>>

root ==
    /\ pc = "serving"
    /\ request # None /\ response = None
    /\ request[1].path = "/"
    /\ response' = Some(root_view)
    /\ UNCHANGED <<artifact, pc, loads, globals, request>>

health ==
    /\ pc = "serving"
    /\ request # None /\ response = None
    /\ request[1].path = "/health"
    /\ response' = Some(health_view)
    /\ UNCHANGED <<artifact, pc, loads, globals, request>>

\* Mutant: a classifier that raises is dropped, leaving the service unloaded.
predict_dropping_model ==
    /\ pc = "serving"
    /\ request # None /\ response = None
    /\ request[1].path = "/predict"
    /\ \E c \in (IF reaches_classifier(request[1])
                 THEN ClassifierBehaviours(model[1], _validate(get_json(request[1])[1]).x)
                 ELSE {Raised}) :
          /\ response' = Some(predict_view(request[1], c))
          /\ model' = IF reaches_classifier(request[1]) /\ c.raised THEN None ELSE model
    /\ UNCHANGED <<artifact, pc, loads, class_names, feature_names, n_features,
                   test_accuracy, request>>

predict ==
    /\ pc = "serving"
    /\ request # None /\ response = None
    /\ request[1].path = "/predict"
    /\ \E c \in (IF reaches_classifier(request[1])
                 THEN ClassifierBehaviours(model[1], _validate(get_json(request[1])[1]).x)
                 ELSE {Raised}) :
          response' = Some(predict_view(request[1], c))
    /\ UNCHANGED <<artifact, pc, loads, globals, request>>

Respond ==
    /\ pc = "serving"
    /\ request # None /\ response # None
    /\ request' = None
    /\ response' = None
    /\ UNCHANGED <<artifact, pc, loads, globals>>

Init ==
    /\ artifact \in ArtifactFiles
    /\ pc = "startup"
    /\ loads = 0
    /\ model = None
    /\ class_names = <<>>
    /\ feature_names = <<>>
    /\ n_features = 0
    /\ test_accuracy = 0
    /\ request = None
    /\ response = None

Next == LoadArtifact \/ Receive \/ root \/ health \/ predict \/ Respond

Spec == Init /\ [][Next]_vars

(***************************************************************************)
(* Properties.  A state is Handled when a view has built the response of   *)
(* the request being served and it has not been sent yet.                  *)
(***************************************************************************)
Handled == pc = "serving" /\ request # None /\ response # None

PredictHandled == Handled /\ request[1].path = "/predict"

Ready == model # None

\* The body of the request is an object whose 'features' is a list.
HasFeatureList(req) ==
    /\ req.body.t = "dict"
    /\ "features" \in DOMAIN req.body.d
    /\ req.body.d.features.t = "list"

IsErrorResponse(r, code, msg) ==
    /\ r.code = code
    /\ r.json
    /\ r.body.status = "error"
    /\ r.body.error = msg

IsSuccess(r) == r.json /\ r.body.status = "success"

\* C1: when the service is Unloaded (model is None after startup), every
\* POST /predict, whatever its content type, body or features, is answered
\* 500 with status 'error' and 'Modelo no disponible.': never a bad-request
\* outcome, never a success.
C1_UnloadedPredictRefused ==
    (PredictHandled /\ model = None) =>
        /\ IsErrorResponse(response[1], 500, <<"Modelo no disponible.">>)
        /\ response[1].code # 400
        /\ ~IsSuccess(response[1])

\* An Unloaded service (a bundle without 'model') has refused a JSON request
\* whose features list has the expected length and only numbers.
C1_Witness ==
    /\ PredictHandled /\ model = None
    /\ request[1].is_json
    /\ HasFeatureList(request[1])
    /\ Len(request[1].body.d.features.items) = n_features
    /\ n_features = 4
    /\ \A i \in 1..4 : request[1].body.d.features.items[i].t = "num"
    /\ response[1].code = 500

\* The five checks of the validation, each stated on its own: check k is
\* violated by payload p when p fails it or does not get as far as it.
IsObject(p) == p.t = "dict"
HasKey(p) == IsObject(p) /\ "features" \in DOMAIN p.d
HasList(p) == HasKey(p) /\ p.d.features.t = "list"
Violates(k, p) ==
    CASE k = 1 -> ~IsObject(p)
      [] k = 2 -> ~HasKey(p)
      [] k = 3 -> ~HasList(p)
      [] k = 4 -> ~(HasList(p) /\ Len(p.d.features.items) = n_features)
      [] k = 5 -> ~(HasList(p) /\ np_asarray(p.d.features.items) # None)

\* The error messages of kind k (NotAnObject, MissingKey, NotAList,
\* WrongArity, NonNumeric), for every received count.
MessagesOfKind(k) ==
    CASE k = 1 -> {MsgNotAnObject}
      [] k = 2 -> {MsgMissingKey}
      [] k = 3 -> {MsgNotAList}
      [] k = 4 -> {MsgWrongArity(n_features, l) : l \in 0..(MaxLen + 1)}
      [] k = 5 -> {MsgNonNumeric}

\* The request is one predict passes to _validate.
ValidateCalled ==
    /\ PredictHandled /\ Ready
    /\ request[1].is_json
    /\ get_json(request[1]) # None

\* C2: _validate checks object shape, key presence, list shape, arity and
\* numeric coercion in this order and reports the first failure only: the
\* error is of the kind of the earliest violated check and of no other kind
\* (the five kinds are pairwise distinguishable).
C2_FirstFailureReported ==
    ValidateCalled =>
        LET p == get_json(request[1])[1]
            violated == {k \in 1..5 : Violates(k, p)}
        IN  violated # {} =>
              LET first == CHOOSE k \in violated : \A j \in violated : k <= j
              IN  /\ ~_validate(p).ok
                  /\ _validate(p).error \in MessagesOfKind(first)
                  /\ \A j \in (1..5) \ {first} : _validate(p).error \notin MessagesOfKind(j)
                  /\ response[1].code = 400
                  /\ response[1].json
                  /\ response[1].body.status = "error"
                  /\ response[1].body.error = _validate(p).error

\* A payload of the wrong length holding a non-numeric string (it violates the
\* arity and the coercion check) has been answered with the arity error.
C2_Witness ==
    /\ ValidateCalled
    /\ HasFeatureList(request[1])
    /\ Violates(4, request[1].body)
    /\ Violates(5, request[1].body)
    /\ response[1].code = 400
    /\ response[1].body.error \in MessagesOfKind(4)

\* C5: for every payload whose 'features' is a list of length L # N (the
\* empty list and lists with non-numeric elements included), _validate fails
\* with the arity error, whose message carries N and L, and POST /predict on
\* a Ready service answers 400.
C5_WrongArityRejected ==
    (PredictHandled /\ Ready /\ HasFeatureList(request[1])
        /\ Len(request[1].body.d.features.items) # n_features) =>
        LET L == Len(request[1].body.d.features.items)
            r == _validate(request[1].body)
        IN  /\ ~r.ok
            /\ Len(r.error) = 5
            /\ r.error[1] = "Se esperaban "
            /\ r.error[2] = n_features
            /\ r.error[4] = L
            /\ response[1].code = 400
            /\ response[1].json
            /\ response[1].body.status = "error"
            /\ request[1].is_json => response[1].body.error = r.error

\* A Ready service expecting 4 values has answered 400 to a list of 3 that
\* holds a non-numeric element.
C5_Witness ==
    /\ PredictHandled /\ Ready
    /\ request[1].is_json
    /\ HasFeatureList(request[1])
    /\ n_features = 4
    /\ Len(request[1].body.d.features.items) = 3
    /\ \E i \in 1..3 : request[1].body.d.features.items[i].t = "str"
    /\ response[1].code = 400
    /\ response[1].body.error[4] = 3

\* C6: once the artifact load has run, no step (receiving, handling or
\* answering a description, health or predict request) changes the loaded
\* classifier, the class names, the feature names, the expected feature
\* count or the reported accuracy, nor runs the load again: Ready stays
\* Ready and Unloaded stays Unloaded.
C6_StateFixedAfterStartup ==
    [][pc = "serving" =>
         /\ model' = model
         /\ class_names' = class_names
         /\ feature_names' = feature_names
         /\ n_features' = n_features
         /\ test_accuracy' = test_accuracy
         /\ loads' = loads
         /\ pc' = "serving"]_vars

\* A Ready service, loaded once, whose classifier has raised on a request.
C6_Witness ==
    /\ PredictHandled /\ Ready
    /\ loads = 1
    /\ reaches_classifier(request[1])
    /\ response[1] = InternalServerError

\* Whether joblib.load returned a bundle that holds a classifier.
ArtifactLoaded ==
    \/ artifact.kind = "bare"
    \/ artifact.kind = "dict" /\ "model" \in DOMAIN artifact.d

\* C8: the loaded flag of GET /health (model_loaded) and of GET /
\* (model_info.loaded) equals whether the artifact loaded; /health answers
\* 200 with status 'ok' exactly when the flag is true and status 'error'
\* otherwise; / answers 200 with status 'success' in both states.
C8_HealthReflectsLoad ==
    /\ (Handled /\ request[1].path = "/health") =>
          /\ response[1].json
          /\ response[1].body.model_loaded = ArtifactLoaded
          /\ response[1].body.model_loaded = (model # None)
          /\ (response[1].code = 200) = response[1].body.model_loaded
          /\ (response[1].body.status = "ok") = response[1].body.model_loaded
          /\ ~response[1].body.model_loaded => response[1].body.status = "error"
    /\ (Handled /\ request[1].path = "/") =>
          /\ response[1].json
          /\ response[1].code = 200
          /\ response[1].body.status = "success"
          /\ response[1].body.model_info.loaded = ArtifactLoaded

\* GET /health of a service whose bundle has no 'model' entry has reported
\* failure.
C8_Witness ==
    /\ Handled /\ request[1].path = "/health"
    /\ artifact.kind = "dict"
    /\ ~response[1].body.model_loaded
    /\ response[1].body.status = "error"
    /\ response[1].code # 200

\* An element that is no number: a string float() rejects, null, a list, an
\* object.
NonNumeric(e) ==
    \/ e.t \in {"null", "list", "dict"}
    \/ e.t = "str" /\ e.s \notin DOMAIN numeric_strings

\* C3: on a Ready service, a payload whose 'features' is a list of exactly N
\* elements, at least one of them non-numeric, fails _validate with the
\* numeric-coercion error and POST /predict answers 400 (the classifier is
\* not reached, no 5xx).
C3_NonNumericRejected ==
    (ValidateCalled /\ HasFeatureList(request[1])
        /\ Len(request[1].body.d.features.items) = n_features
        /\ \E i \in 1..n_features : NonNumeric(request[1].body.d.features.items[i])) =>
        /\ ~_validate(request[1].body).ok
        /\ ~reaches_classifier(request[1])
        /\ IsErrorResponse(response[1], 400, MsgNonNumeric)

\* The number a numeric element stands for.
NumericValue(e) ==
    CASE e.t = "num" -> e.v
      [] e.t = "bool" -> IF e.b THEN 1 ELSE 0
      [] e.t = "str" -> numeric_strings[e.s]

\* C4: _validate succeeds on every list of exactly N numbers, and whenever it
\* succeeds its result is one row of exactly N numbers, the elements of
\* 'features' in their order.
C4_ValidRowPreserved ==
    (ValidateCalled /\ HasFeatureList(request[1])) =>
        LET feats == request[1].body.d.features.items
            r == _validate(request[1].body)
        IN  /\ (Len(feats) = n_features /\ \A i \in 1..Len(feats) : feats[i].t = "num")
                  => r.ok
            /\ r.ok =>
                  /\ r.x.shape = <<1, n_features>>
                  /\ Len(r.x.data) = Len(feats)
                  /\ \A i \in 1..Len(feats) :
                        /\ ~NonNumeric(feats[i])
                        /\ r.x.data[i] = Float(NumericValue(feats[i]))

\* The artifact does not load: the file is missing or corrupt, or the bundle
\* has no 'model' entry.
LoadFails ==
    \/ artifact.kind \in {"missing", "corrupt"}
    \/ artifact.kind = "dict" /\ "model" \notin DOMAIN artifact.d

\* C7: if the artifact fails to load (file missing, file corrupt, bundle
\* without 'model'), the service does not crash: it serves in the Unloaded
\* state, where health reports failure and predict is refused.
C7_LoadFailureDegrades ==
    /\ (pc # "startup" /\ LoadFails) => (pc = "serving" /\ model = None)
    /\ (Handled /\ LoadFails /\ request[1].path = "/health") => response[1].code # 200
    /\ (Handled /\ LoadFails /\ request[1].path = "/predict") =>
          IsErrorResponse(response[1], 500, MsgUnavailable)

\* The request carries a list of exactly N numbers.
WellFormed(req) ==
    /\ req.is_json
    /\ HasFeatureList(req)
    /\ Len(req.body.d.features.items) = n_features
    /\ \A i \in 1..n_features : req.body.d.features.items[i].t = "num"

\* C9: POST /predict (here on a list of N numbers) answers success only with
\* a category index inside 0 <= index < len(class_names); an index outside
\* (a negative one included) is never mapped to a class name.
C9_OutOfRangeIndexFails ==
    (PredictHandled /\ WellFormed(request[1]) /\ IsSuccess(response[1])) =>
        /\ 0 <= response[1].body.prediction_index
        /\ response[1].body.prediction_index < Len(class_names)

\* C10: with a classifier that has predict_proba, every success response
\* (here to a list of N numbers) carries a 'proba' list of exactly len(class_names) entries and a
\* 'probabilities' mapping with exactly one entry per class name, the entry
\* of class_names[i] being the three-decimal text of proba[i].
C10_ProbabilityMapping ==
    (PredictHandled /\ WellFormed(request[1]) /\ IsSuccess(response[1])
        /\ model[1].predict_proba) =>
        LET b == response[1].body IN
        /\ Len(b.proba) = Len(class_names)
        /\ DOMAIN b.probabilities = Range(class_names)
        /\ Cardinality(DOMAIN b.probabilities) = Len(class_names)
        /\ \A i \in 1..Len(class_names) :
              b.probabilities[class_names[i]] = Format3(b.proba[i])

\* C11: with a classifier that has no predict_proba, every success response
\* has an empty 'proba' list and a 'probabilities' mapping with exactly one
\* entry, keyed by the predicted label (the 'prediction' of the response,
\* which is class_names[prediction_index] as Python indexes a list) with the
\* text "1.000".
C11_DegenerateConfidence ==
    (PredictHandled /\ IsSuccess(response[1]) /\ ~model[1].predict_proba) =>
        LET b == response[1].body
            i == b.prediction_index
            label == IF i >= 0 THEN class_names[i + 1]
                     ELSE class_names[Len(class_names) + i + 1]
        IN  /\ b.proba = <<>>
            /\ -Len(class_names) <= i /\ i < Len(class_names)
            /\ b.prediction = label
            /\ DOMAIN b.probabilities = {label}
            /\ Cardinality(DOMAIN b.probabilities) = 1
            /\ b.probabilities[label] = <<"1", ".", "0", "0", "0">>

\* A classifier without predict_proba has answered a list of N numbers with
\* the last of three classes.
C11_Witness ==
    /\ PredictHandled /\ Ready
    /\ ~model[1].predict_proba
    /\ WellFormed(request[1])
    /\ IsSuccess(response[1])
    /\ response[1].body.prediction_index = 2
    /\ response[1].body.prediction = "virginica"
    /\ response[1].body.proba = <<>>
====
